---- MODULE Spec2Model ----
(***************************************************************************)
(* A model of the PDF -> image-based PDF converter:                        *)
(*   src/pdf_to_image_converter.py  (PDFToImageConverter, its batch mode)  *)
(*   src/utils.py                   (validate_pdf, get_output_filename)    *)
(*   src/pdf_to_image_converter.py  (main, the command-line interface)     *)
(*   src/app.py                     (upload_file, the /upload endpoint)    *)
(*                                                                         *)
(* The file system is the function fs (output files), the set dirs and     *)
(* the function tempdirs (scratch directories).  An input file is a record *)
(* holding its path and what the code can observe of it.  A path of an     *)
(* output file is the record [dir, stem, dpi, n], standing for             *)
(*   dir/stem.pdf                  (dpi = 0)                               *)
(*   dir/stem_image_{dpi}dpi.pdf   (dpi > 0, n = 0)                        *)
(*   dir/stem_image_{dpi}dpi_n.pdf (dpi > 0, n > 0).                       *)
(* Every step that can raise in the code draws its outcome with \E.        *)
(***************************************************************************)
EXTENDS Integers, Sequences, FiniteSets, TLC

VARIABLES
    pc,            \* position of the program
    converter,     \* the PDFToImageConverter object (NoConverter before __init__)
    mode,          \* "none" | "single" | "batch": which entry point was called
    input_paths,   \* convert_batch: the list of inputs
    output_dir,    \* convert_batch: the output directory ("" is None)
    i,             \* convert_batch: 1-based loop index
    output_paths,  \* convert_batch: the list it returns
    successful,    \* convert_batch: counter
    failed,        \* convert_batch: counter
    input_path,    \* convert_single_pdf: argument
    output_path,   \* convert_single_pdf: argument / derived path (NoPath is None)
    temp_dir,      \* convert_single_pdf: name of its TemporaryDirectory (0: none)
    pdf_document,  \* convert_pdf_to_images: "none" | "open" | "closed"
    page_count,    \* convert_pdf_to_images: len(pdf_document)
    page_num,      \* convert_pdf_to_images: 0-based loop index
    pixmap,        \* convert_pdf_to_images: the raster held in memory
    image_paths,   \* list of <<image name, <<width, height>>>>
    canvas,        \* create_pdf_from_images: pages appended so far
    canvas_i,      \* create_pdf_from_images: 1-based loop index
    err,           \* the exception being raised / last raised
    init_args,     \* __init__: the arguments of the call in progress
    fs,            \* output files on disk: path -> content
    dirs,          \* directories on disk
    tempdirs,      \* scratch directories on disk: name -> (file name -> content)
    temp_seq,      \* number of scratch directories created so far
    close_count,   \* history: close() calls on the current document handle
    rendered,      \* history: pages of the current document rendered so far
    assembling,    \* history: create_pdf_from_images was entered in this call
    wrote,         \* history: this call wrote (fully or partly) to output_path
    fs_before,     \* history: fs when the current convert_single_pdf call began
    io,            \* history: some file was read, opened, created or deleted
    attempts,      \* history: batch indices for which convert_single_pdf was called
    outcomes,      \* history: how each convert_single_pdf call ended ("ok" | "error")
    args,          \* main: the parsed command line (NoArgv when main is not the caller)
    exit_status,   \* main: the exit status of the process (-1 while it runs)
    request,       \* upload_file: the request being answered (NoRequest: none)
    response,      \* upload_file: the status code of the answer (0: not answered)
    uploads        \* upload_file: the input files present in the upload folder

vars == <<pc, converter, mode, input_paths, output_dir, i, output_paths,
          successful, failed, input_path, output_path, temp_dir, pdf_document,
          page_count, page_num, pixmap, image_paths, canvas, canvas_i, err,
          init_args, fs, dirs, tempdirs, temp_seq, close_count, rendered, assembling,
          wrote, fs_before, io, attempts, outcomes, args, exit_status, request,
          response, uploads>>

batchVars == <<input_paths, output_dir, i, output_paths, successful, failed,
               attempts>>
rasterVars == <<pdf_document, page_count, page_num, pixmap, image_paths,
                close_count, rendered>>
canvasVars == <<canvas, canvas_i, assembling>>
callerVars == <<args, exit_status, request, response, uploads>>

----------------------------------------------------------------------------
(* Bounds of the model *)

\* Largest number of pages of a source document
MaxPages == 2
\* Largest number of inputs of a batch
MaxBatch == 2
\* Largest number of output names already taken when the program starts
MaxExisting == 2
\* NamingSpec: how far beyond the retry cap the taken names may extend
MaxOver == 1

(* Program constants *)

\* utils.py:45  os.path.getsize(file_path) < 100
MinPdfSize == 100
\* utils.py:89  if counter > 1000: break
MaxCounter == 1000
\* pdf_to_image_converter.py:96  fitz.Matrix(self.dpi / 72, self.dpi / 72)
PointsPerInch == 72

----------------------------------------------------------------------------
(* Values *)

NoConverter == [dpi |-> 0, image_format |-> "", jpeg_quality |-> 0]
NoPath == [dir |-> "", stem |-> "", dpi |-> 0, n |-> 0]
NoError == [type |-> "", kind |-> "", page |-> 0]
NoFile == [path |-> [scheme |-> "", dir |-> "", stem |-> "", ext |-> ""],
           exists |-> FALSE, is_file |-> FALSE, header |-> "", size |-> 0,
           read_error |-> FALSE, size_error |-> FALSE, parseable |-> FALSE,
           is_encrypted |-> FALSE, pages |-> <<>>]
NoRaster == [format |-> "", src |-> NoFile.path, page |-> 0, width |-> 0, height |-> 0]
NoArgs == [dpi |-> 0, image_format |-> "", jpeg_quality |-> 0]
EmptyDir == [x \in {} |-> NoRaster]
NoArgv == [input |-> <<>>, output |-> NoPath, output_dir |-> "", batch |-> FALSE,
           dpi |-> 0, format |-> "", quality |-> 0]
NoRequest == [has_file |-> FALSE, file |-> NoFile, dpi |-> "", format |-> "",
              quality |-> ""]

\* a mapping with key k set to v, and with key k removed
Put(f, k, v) == [x \in DOMAIN f \cup {k} |-> IF x = k THEN v ELSE f[x]]
Drop(f, k) == [x \in DOMAIN f \ {k} |-> f[x]]

\* str.upper() on the format names the inputs are drawn from
upper(s) ==
    CASE s = "jpeg" -> "JPEG"
      [] s = "png"  -> "PNG"
      [] s = "gif"  -> "GIF"
      [] OTHER      -> s

\* str.lower() on the extensions and format names in use
lower(s) ==
    CASE s = "JPEG" -> "jpeg"
      [] s = "PNG"  -> "png"
      [] s = ".PDF" -> ".pdf"
      [] s = ".TXT" -> ".txt"
      [] OTHER      -> s

----------------------------------------------------------------------------
(* Input files: the path, and what the code can observe of the file *)

PageSizes(n) == [k \in 1..n |-> IF k % 2 = 1 THEN <<612, 792>> ELSE <<595, 842>>]

File(scheme, dir, stem, ext, header, size, parseable, encrypted, n) ==
    [path |-> [scheme |-> scheme, dir |-> dir, stem |-> stem, ext |-> ext],
     exists |-> TRUE, is_file |-> TRUE, header |-> header, size |-> size,
     read_error |-> FALSE, size_error |-> FALSE, parseable |-> parseable,
     is_encrypted |-> encrypted, pages |-> PageSizes(n)]

GoodStem == <<"a", "a", "c", "d", "e", "f">>
GoodDir == <<"in", "in2", "in", "in", "in", "in">>
\* A well-formed document of n pages; the 1-page and the 2-page one share their
\* stem and live in different directories
GoodDoc(n) == File("", GoodDir[n], GoodStem[n], ".pdf", "%PDF-", 2000, TRUE, FALSE, n)
EncryptedDoc == File("", "in", "enc", ".pdf", "%PDF-", 2000, TRUE, TRUE, 1)
EmptyFile == File("", "in", "empty", ".pdf", "", 0, FALSE, FALSE, 0)
TextAsPdf == File("", "in", "notes", ".pdf", "hello", 200, FALSE, FALSE, 0)
TextFile == File("", "in", "notes", ".txt", "hello", 200, FALSE, FALSE, 0)
Truncated == File("", "in", "trunc", ".pdf", "%PDF-", 150, FALSE, FALSE, 0)
Tiny == File("", "in", "tiny", ".pdf", "%PDF-", 50, FALSE, FALSE, 0)
UpperExt == File("", "in", "up", ".PDF", "%PDF-", 2000, TRUE, FALSE, 1)
\* a relative path such as "data:x.pdf": mimetypes reads it as a data: URL
DataGood == File("data", "in", "data:x", ".pdf", "%PDF-", 2000, TRUE, FALSE, 1)
DataText == File("data", "in", "data:y", ".pdf", "hello", 200, FALSE, FALSE, 0)
DataUnreadable == [File("data", "in", "data:w", ".pdf", "%PDF-", 2000, TRUE, FALSE, 1)
                      EXCEPT !.read_error = TRUE]
Vanishing == [File("", "in", "v", ".pdf", "%PDF-", 2000, TRUE, FALSE, 1)
                 EXCEPT !.size_error = TRUE]
Missing == [File("", "in", "gone", ".pdf", "", 0, FALSE, FALSE, 0)
               EXCEPT !.exists = FALSE, !.is_file = FALSE]
Directory == [File("", "in", "folder", ".pdf", "", 4096, FALSE, FALSE, 0)
                 EXCEPT !.is_file = FALSE]

BatchFiles == {GoodDoc(1), GoodDoc(2), EncryptedDoc, EmptyFile}
SingleFiles == {GoodDoc(n) : n \in 1..MaxPages} \cup
               {EncryptedDoc, EmptyFile, TextAsPdf, TextFile, Truncated, Tiny,
                UpperExt, DataGood, DataText, DataUnreadable, Vanishing,
                Missing, Directory}

BatchLists == UNION {[1..n -> BatchFiles] : n \in 0..MaxBatch}

\* the values the caller may pass to __init__
DpiInputs == {72, 150, 300, 96}
FormatInputs == {"JPEG", "PNG", "jpeg", "GIF"}
QualityInputs == {0, 1, 100, 101}

----------------------------------------------------------------------------
(* utils.py *)

\* mimetypes.guess_type(file_path)[0]: by extension, except that a path that
\* starts with "data:" is read as a data: URL without a media type
guess_type(path) ==
    IF path.scheme = "data" THEN "None"
    ELSE CASE lower(path.ext) = ".pdf" -> "application/pdf"
           [] lower(path.ext) = ".txt" -> "text/plain"
           [] OTHER -> "None"

\* mutant of ExceptIOError: the statement is not in a try block
UncaughtIOError(exc) == exc

\* except (IOError, OSError): return False, around a statement that raised exc
ExceptIOError(exc) ==
    IF exc \in {"IOError", "OSError", "PermissionError", "FileNotFoundError"}
    THEN "False"
    ELSE exc

\* how a call of validate_pdf ends: "True" or "False" when it returns, the name of
\* the exception when one leaves it.  os.path.exists and os.path.isfile answer False
\* when the file cannot be examined; open() and f.read() raise PermissionError (an
\* OSError) on a file that cannot be read, os.path.getsize raises FileNotFoundError
\* (an OSError) on a file that was removed after the first checks
ValidateOutcome(f) ==
    IF ~f.exists THEN "False"
    ELSE IF ~f.is_file THEN "False"
    ELSE IF lower(f.path.ext) # ".pdf" THEN "False"
    ELSE IF guess_type(f.path) # "application/pdf" /\ f.read_error
         THEN ExceptIOError("PermissionError")
    ELSE IF guess_type(f.path) # "application/pdf" /\ f.header # "%PDF-" THEN "False"
    ELSE IF f.size_error THEN ExceptIOError("FileNotFoundError")
    ELSE IF f.size < MinPdfSize THEN "False"
    ELSE "True"

\* the value validate_pdf returns
validate_pdf(f) == ValidateOutcome(f) = "True"

\* f"{base_name}{suffix}.pdf" for counter = 0, f"{base_name}{suffix}_{counter}.pdf"
\* otherwise, in the directory of the input
Candidate(path, dpi, counter) ==
    [dir |-> path.dir, stem |-> path.stem, dpi |-> dpi, n |-> counter]

\* at most `fuel` iterations of the while loop of get_output_filename, entered with
\* the path to test and the counter of the next name; done: the loop was left
RECURSIVE NameIterations(_, _, _, _, _, _)
NameIterations(path, dpi, output, counter, files, fuel) ==
    IF output \notin files
    THEN [done |-> TRUE, output |-> output, counter |-> counter]
    ELSE IF counter + 1 > MaxCounter
         THEN [done |-> TRUE, output |-> Candidate(path, dpi, counter),
               counter |-> counter + 1]
         ELSE IF fuel = 1
              THEN [done |-> FALSE, output |-> Candidate(path, dpi, counter),
                    counter |-> counter + 1]
              ELSE NameIterations(path, dpi, Candidate(path, dpi, counter),
                                  counter + 1, files, fuel - 1)

\* the while loop of get_output_filename, evaluated 40 iterations at a time (the
\* evaluator's stack does not hold a recursion as deep as the loop is long)
RECURSIVE NameLoop(_, _, _, _, _)
NameLoop(path, dpi, output, counter, files) ==
    LET r == NameIterations(path, dpi, output, counter, files, 40)
    IN IF r.done THEN r.output
       ELSE NameLoop(path, dpi, r.output, r.counter, files)

\* mutant of get_output_filename: one retry instead of the loop
OneRetry(path, image_format, dpi, files) ==
    IF Candidate(path, dpi, 0) \in files
    THEN Candidate(path, dpi, 1)
    ELSE Candidate(path, dpi, 0)

\* image_format is not used
get_output_filename(path, image_format, dpi, files) ==
    NameLoop(path, dpi, Candidate(path, dpi, 0), 1, files)

----------------------------------------------------------------------------
(* The file system the program starts in *)

\* the -o path of the single-file mode
ExplicitOut == [dir |-> "in", stem |-> "result", dpi |-> 0, n |-> 0]
OldContent == [kind |-> "old", src |-> NoFile.path, pages |-> <<>>]
PartialContent == [kind |-> "partial", src |-> NoFile.path, pages |-> <<>>]

\* the first k names get_output_filename tries for GoodDoc(1), at every dpi
Taken(k) == {Candidate(GoodDoc(1).path, d, n) : d \in {72, 150, 300}, n \in 0..(k - 1)}

InitialFS == {[p \in S |-> OldContent] :
                 S \in {{}, {ExplicitOut}} \cup {Taken(k) : k \in 1..MaxExisting}}

Init ==
    /\ pc = "new"
    /\ converter = NoConverter
    /\ init_args = NoArgs
    /\ mode = "none"
    /\ input_paths = <<>>
    /\ output_dir = ""
    /\ i = 0
    /\ output_paths = <<>>
    /\ successful = 0
    /\ failed = 0
    /\ input_path = NoFile
    /\ output_path = NoPath
    /\ temp_dir = 0
    /\ pdf_document = "none"
    /\ page_count = 0
    /\ page_num = 0
    /\ pixmap = NoRaster
    /\ image_paths = <<>>
    /\ canvas = <<>>
    /\ canvas_i = 0
    /\ err = NoError
    /\ fs \in InitialFS
    /\ dirs = {"in", "in2"}
    /\ tempdirs = [d \in {} |-> EmptyDir]
    /\ temp_seq = 0
    /\ close_count = 0
    /\ rendered = <<>>
    /\ assembling = FALSE
    /\ wrote = FALSE
    /\ fs_before = fs
    /\ io = FALSE
    /\ attempts = <<>>
    /\ outcomes = <<>>
    /\ args = NoArgv
    /\ exit_status = -1
    /\ request = NoRequest
    /\ response = 0
    /\ uploads = {}

----------------------------------------------------------------------------
(* PDFToImageConverter.__init__ *)

\* mutant of SettingsError: the dpi is not checked
SettingsErrorNoDpi(self) ==
    IF self.image_format \notin {"JPEG", "PNG"} THEN "image_format"
    ELSE IF ~(1 <= self.jpeg_quality /\ self.jpeg_quality <= 100) THEN "jpeg_quality"
    ELSE ""

\* the check that fails first, "" when the settings are in range
SettingsError(self) ==
    IF self.dpi \notin {72, 150, 300} THEN "dpi"
    ELSE IF self.image_format \notin {"JPEG", "PNG"} THEN "image_format"
    ELSE IF ~(1 <= self.jpeg_quality /\ self.jpeg_quality <= 100) THEN "jpeg_quality"
    ELSE ""

\* the call PDFToImageConverter(dpi, image_format, jpeg_quality)
Construct(d, f, q) ==
    /\ init_args' = [dpi |-> d, image_format |-> f, jpeg_quality |-> q]
    /\ pc' = "init"

\* a caller constructs a converter on its own
CallInit ==
    /\ pc = "new"
    /\ \E d \in DpiInputs, f \in FormatInputs, q \in QualityInputs : Construct(d, f, q)
    /\ UNCHANGED <<callerVars, converter, mode, batchVars, outcomes, input_path, output_path, temp_dir,
                   rasterVars, canvasVars, err, fs, dirs, tempdirs, temp_seq,
                   wrote, fs_before, io>>

\* the body of __init__: store the settings, raise ValueError if one is out of range
InitBody ==
    /\ pc = "init"
    /\ LET self == [dpi |-> init_args.dpi,
                    image_format |-> upper(init_args.image_format),
                    jpeg_quality |-> init_args.jpeg_quality]
       IN IF SettingsError(self) = ""
          THEN /\ converter' = self
               /\ pc' = "ready"
               /\ err' = err
          ELSE /\ converter' = NoConverter
               /\ pc' = "config_error"
               /\ err' = [type |-> "ValueError", kind |-> SettingsError(self), page |-> 0]
    /\ init_args' = NoArgs
    /\ UNCHANGED <<callerVars, mode, batchVars, outcomes, input_path, output_path, temp_dir,
                   rasterVars, canvasVars, fs, dirs, tempdirs, temp_seq,
                   wrote, fs_before, io>>

----------------------------------------------------------------------------
(* PDFToImageConverter.convert_pdf_to_images *)

\* names of the files written to the scratch directory
PpmName(p) == [base |-> "temp_page", num |-> p, ext |-> "ppm"]
ImageName(p, image_format) == [base |-> "page", num |-> p, ext |-> lower(image_format)]

\* page.get_pixmap(matrix=fitz.Matrix(dpi / 72, dpi / 72)): the raster of page p
\* (0-based) of document f, dpi / 72 pixels per point
GetPixmap(f, p, dpi) ==
    [format |-> "pixmap", src |-> f.path, page |-> p,
     width |-> (f.pages[p + 1][1] * dpi) \div PointsPerInch,
     height |-> (f.pages[p + 1][2] * dpi) \div PointsPerInch]

\* mutant of PageRect: the size of the raster in pixels is taken for the page size
PixmapSize(f, p, raster) == <<raster.width, raster.height>>

\* page.rect: (original_width, original_height) in points; the raster plays no part
PageRect(f, p, raster) == f.pages[p + 1]

\* mutant of PageError: the 0-based loop index is reported
PageErrorZeroBased(p) == [type |-> "RuntimeError", kind |-> "page", page |-> p]

\* RuntimeError(f"Failed to process page {page_num + 1}: {e}")
PageError(p) == [type |-> "RuntimeError", kind |-> "page", page |-> p + 1]

\* where the page loop goes after page p: the next page, or the end of the loop
AfterPage(p, count) == IF p + 1 < count THEN "render" ELSE "close"

\* mutant of IsEncrypted: the test is missing
NeverEncrypted(f) == FALSE

\* pdf_document.is_encrypted
IsEncrypted(f) == f.is_encrypted

\* fitz.open(pdf_path), then the is_encrypted test
OpenDocument ==
    /\ pc = "open"
    /\ \E ok \in BOOLEAN :
          /\ ok => input_path.parseable
          /\ IF ~ok
             THEN /\ err' = [type |-> "RuntimeError", kind |-> "open", page |-> 0]
                  /\ pc' = "unwind"
                  /\ UNCHANGED <<pdf_document, page_count, page_num, image_paths>>
             ELSE /\ pdf_document' = "open"
                  /\ IF IsEncrypted(input_path)
                     THEN /\ err' = [type |-> "RuntimeError", kind |-> "encrypted",
                                     page |-> 0]
                          /\ pc' = "unwind"
                          /\ UNCHANGED <<page_count, page_num, image_paths>>
                     ELSE /\ page_count' = Len(input_path.pages)
                          /\ page_num' = 0
                          /\ image_paths' = <<>>
                          /\ pc' = IF Len(input_path.pages) = 0 THEN "close" ELSE "render"
                          /\ err' = err
    /\ UNCHANGED <<callerVars, converter, init_args, mode, batchVars, outcomes, input_path, output_path,
                   temp_dir, pixmap, close_count, rendered, canvasVars, fs, dirs,
                   tempdirs, temp_seq, wrote, fs_before, io>>

\* page = pdf_document[page_num]; pixmap = page.get_pixmap(...)
Render ==
    /\ pc = "render"
    /\ \E ok \in BOOLEAN :
          IF ok
          THEN /\ pixmap' = GetPixmap(input_path, page_num, converter.dpi)
               /\ rendered' = Append(rendered, page_num)
               /\ pc' = "save_pixmap"
               /\ err' = err
          ELSE /\ err' = PageError(page_num)
               /\ pc' = "unwind"
               /\ UNCHANGED <<pixmap, rendered>>
    /\ UNCHANGED <<callerVars, converter, init_args, mode, batchVars, outcomes, input_path, output_path,
                   temp_dir, pdf_document, page_count, page_num, image_paths,
                   close_count, canvasVars, fs, dirs, tempdirs, temp_seq, wrote, fs_before, io>>

\* pixmap.save(temp_pixmap_path)
SavePixmap ==
    /\ pc = "save_pixmap"
    /\ \E ok \in BOOLEAN :
          IF ok
          THEN /\ tempdirs' = [tempdirs EXCEPT ![temp_dir] =
                                  Put(@, PpmName(page_num), [pixmap EXCEPT !.format = "PPM"])]
               /\ pc' = "load_pixmap"
               /\ err' = err
          ELSE /\ err' = PageError(page_num)
               /\ pc' = "unwind"
               /\ tempdirs' = tempdirs
    /\ UNCHANGED <<callerVars, converter, init_args, mode, batchVars, outcomes, input_path, output_path,
                   temp_dir, rasterVars, canvasVars, fs, dirs, temp_seq, wrote, fs_before, io>>

\* pil_image = Image.open(temp_pixmap_path); os.remove(temp_pixmap_path)
LoadPixmap ==
    /\ pc = "load_pixmap"
    /\ \E ok \in BOOLEAN :
          IF ok
          THEN /\ pixmap' = [tempdirs[temp_dir][PpmName(page_num)] EXCEPT !.format = "PIL"]
               /\ tempdirs' = [tempdirs EXCEPT ![temp_dir] = Drop(@, PpmName(page_num))]
               /\ pc' = "encode"
               /\ err' = err
          ELSE /\ err' = PageError(page_num)
               /\ pc' = "unwind"
               /\ UNCHANGED <<pixmap, tempdirs>>
    /\ UNCHANGED <<callerVars, converter, init_args, mode, batchVars, outcomes, input_path, output_path,
                   temp_dir, pdf_document, page_count, page_num, image_paths,
                   close_count, rendered, canvasVars, fs, dirs, temp_seq, wrote, fs_before, io>>

\* page.rect, pil_image.save(image_path, ...), image_paths.append(...), and the
\* step of the for loop
Encode ==
    /\ pc = "encode"
    /\ \E ok \in BOOLEAN :
          IF ok
          THEN /\ tempdirs' = [tempdirs EXCEPT ![temp_dir] =
                                  Put(@, ImageName(page_num, converter.image_format),
                                      [pixmap EXCEPT !.format = converter.image_format])]
               /\ image_paths' = Append(image_paths,
                                        <<ImageName(page_num, converter.image_format),
                                          PageRect(input_path, page_num, pixmap)>>)
               /\ pixmap' = NoRaster
               /\ page_num' = page_num + 1
               /\ pc' = AfterPage(page_num, page_count)
               /\ err' = err
          ELSE /\ err' = PageError(page_num)
               /\ pc' = "unwind"
               /\ UNCHANGED <<tempdirs, image_paths, pixmap, page_num>>
    /\ UNCHANGED <<callerVars, converter, init_args, mode, batchVars, outcomes, input_path, output_path,
                   temp_dir, pdf_document, page_count, close_count, rendered,
                   canvasVars, fs, dirs, temp_seq, wrote, fs_before, io>>

\* pdf_document.close(); return image_paths
CloseDocument ==
    /\ pc = "close"
    /\ pdf_document' = "closed"
    /\ close_count' = close_count + 1
    /\ pc' = "canvas"
    /\ UNCHANGED <<callerVars, converter, init_args, mode, batchVars, outcomes, input_path, output_path,
                   temp_dir, page_count, page_num, pixmap, image_paths, rendered,
                   canvasVars, err, fs, dirs, tempdirs, temp_seq, wrote, fs_before, io>>

----------------------------------------------------------------------------
(* PDFToImageConverter.create_pdf_from_images *)

ReassemblyError == [type |-> "RuntimeError", kind |-> "reassembly", page |-> 0]

\* one page of the canvas: c.setPageSize((width, height)), c.drawImage(...) of
\* the image read from image_path, c.showPage()
CanvasPage(entry, files) ==
    [width |-> entry[2][1], height |-> entry[2][2], image |-> files[entry[1]]]

\* mutant of NewCanvas: the output file is opened for writing when the canvas is made
NewCanvasOpensFile(files, path) == Put(files, path, PartialContent)

\* canvas.Canvas(output_path) keeps the name and opens no file: the files are as
\* they were
NewCanvas(files, path) == files

\* c = canvas.Canvas(output_path): nothing is written before c.save()
CreateCanvas ==
    /\ pc = "canvas"
    /\ fs' = NewCanvas(fs, output_path)
    /\ canvas' = <<>>
    /\ canvas_i' = 1
    /\ assembling' = TRUE
    /\ pc' = IF image_paths = <<>> THEN "save" ELSE "add_page"
    /\ UNCHANGED <<callerVars, converter, init_args, mode, batchVars, outcomes,
                   input_path, output_path, temp_dir, rasterVars, err, dirs, tempdirs,
                   temp_seq, wrote, fs_before, io>>

\* one iteration of the loop over image_paths
AddPage ==
    /\ pc = "add_page"
    /\ \E ok \in BOOLEAN :
          /\ ok => image_paths[canvas_i][1] \in DOMAIN tempdirs[temp_dir]
          /\ IF ok
             THEN /\ canvas' = Append(canvas,
                                      CanvasPage(image_paths[canvas_i], tempdirs[temp_dir]))
                  /\ canvas_i' = canvas_i + 1
                  /\ pc' = IF canvas_i = Len(image_paths) THEN "save" ELSE "add_page"
                  /\ err' = err
             ELSE /\ err' = ReassemblyError
                  /\ pc' = "unwind"
                  /\ UNCHANGED <<canvas, canvas_i>>
    /\ UNCHANGED <<callerVars, converter, init_args, mode, batchVars, outcomes, input_path, output_path,
                   temp_dir, rasterVars, assembling, fs, dirs, tempdirs, temp_seq,
                   wrote, fs_before, io>>

\* c.save(): the whole document is written to output_path; a failing write may
\* leave a partial file behind
SaveCanvas ==
    /\ pc = "save"
    /\ \E ok \in BOOLEAN :
          IF ok
          THEN /\ fs' = Put(fs, output_path,
                            [kind |-> "converted", src |-> input_path.path,
                             pages |-> canvas])
               /\ wrote' = TRUE
               /\ pc' = "report"
               /\ err' = err
          ELSE /\ \E partial \in BOOLEAN :
                     /\ fs' = IF partial THEN Put(fs, output_path, PartialContent) ELSE fs
                     /\ wrote' = partial
               /\ err' = ReassemblyError
               /\ pc' = "unwind"
    /\ UNCHANGED <<callerVars, converter, init_args, mode, batchVars, outcomes, input_path, output_path,
                   temp_dir, rasterVars, canvasVars, dirs, tempdirs, temp_seq,
                   fs_before, io>>

----------------------------------------------------------------------------
(* PDFToImageConverter.convert_single_pdf *)

\* mutant of LeaveWith: the directory is made with mkdtemp and never removed
KeepTempDir(tmp, d) == tmp

\* leaving the with block of tempfile.TemporaryDirectory(), by return or by an
\* exception of any kind: the directory d is removed with all that is in it
LeaveWith(tmp, d) == Drop(tmp, d)

\* mutant of RemoveOutput: the except clause only re-raises
KeepOutput(files, path) == files

\* the except clause: if os.path.exists(output_path): os.remove(output_path)
RemoveOutput(files, path) == IF path \in DOMAIN files THEN Drop(files, path) ELSE files

\* the path the conversion writes to: the one given, or the derived one
ResolveOutput(given, f, self, files) ==
    IF given = NoPath
    THEN get_output_filename(f.path, lower(self.image_format), self.dpi, DOMAIN files)
    ELSE given

\* validate_pdf(input_path), the derivation of output_path and the entry of the
\* with block (tempfile.TemporaryDirectory())
Validate ==
    /\ pc = "validate"
    /\ io' = TRUE
    /\ IF ~validate_pdf(input_path)
       THEN /\ err' = IF ValidateOutcome(input_path) = "False"
                      THEN [type |-> "ValueError", kind |-> "validation", page |-> 0]
                      ELSE [type |-> ValidateOutcome(input_path),
                            kind |-> "validate_pdf", page |-> 0]
            /\ pc' = "raised"
            /\ outcomes' = Append(outcomes, "error")
            /\ UNCHANGED <<output_path, temp_dir, tempdirs, temp_seq>>
       ELSE /\ output_path' = ResolveOutput(output_path, input_path, converter, fs)
            /\ temp_seq' = temp_seq + 1
            /\ temp_dir' = temp_seq + 1
            /\ tempdirs' = Put(tempdirs, temp_seq + 1, EmptyDir)
            /\ pc' = "open"
            /\ UNCHANGED <<err, outcomes>>
    /\ UNCHANGED <<callerVars, converter, init_args, mode, batchVars, input_path, rasterVars,
                   canvasVars, fs, dirs, wrote, fs_before>>

\* os.path.getsize of both files, the report, return output_path; leaving the
\* with block removes the scratch directory
Report ==
    /\ pc = "report"
    /\ \E ok \in BOOLEAN :
          IF ok
          THEN /\ tempdirs' = LeaveWith(tempdirs, temp_dir)
               /\ pc' = "returned"
               /\ outcomes' = Append(outcomes, "ok")
               /\ err' = err
          ELSE /\ err' = [type |-> "OSError", kind |-> "size", page |-> 0]
               /\ pc' = "unwind"
               /\ UNCHANGED <<tempdirs, outcomes>>
    /\ UNCHANGED <<callerVars, converter, init_args, mode, batchVars, input_path, output_path,
                   temp_dir, rasterVars, canvasVars, fs, dirs, temp_seq, wrote,
                   fs_before, io>>

\* mutant of Unwind: the except clause cleans up and does not re-raise
UnwindSwallowed ==
    /\ pc = "unwind"
    /\ fs' = RemoveOutput(fs, output_path)
    /\ tempdirs' = LeaveWith(tempdirs, temp_dir)
    /\ pc' = "returned"
    /\ outcomes' = Append(outcomes, "ok")
    /\ UNCHANGED <<callerVars, converter, init_args, mode, batchVars, input_path,
                   output_path, temp_dir, rasterVars, canvasVars, err, dirs, temp_seq,
                   wrote, fs_before, io>>

\* except Exception as e: remove the output file, raise e; leaving the with block
\* removes the scratch directory
Unwind ==
    /\ pc = "unwind"
    /\ fs' = RemoveOutput(fs, output_path)
    /\ tempdirs' = LeaveWith(tempdirs, temp_dir)
    /\ pc' = "raised"
    /\ outcomes' = Append(outcomes, "error")
    /\ UNCHANGED <<callerVars, converter, init_args, mode, batchVars, input_path, output_path,
                   temp_dir, rasterVars, canvasVars, err, dirs, temp_seq, wrote,
                   fs_before, io>>

\* the call convert_single_pdf(f, out) by a caller other than convert_batch
BeginSingle(caller, f, out) ==
    /\ mode' = caller
    /\ input_path' = f
    /\ output_path' = out
    /\ fs_before' = fs
    /\ pc' = "validate"

\* a caller invokes convert_single_pdf(input_path, output_path) on its own
SingleBegin ==
    /\ pc = "ready"
    /\ \E f \in SingleFiles, out \in {NoPath, ExplicitOut} : BeginSingle("single", f, out)
    /\ UNCHANGED <<callerVars, converter, init_args, batchVars, outcomes, temp_dir, rasterVars,
                   canvasVars, err, fs, dirs, tempdirs, temp_seq, wrote, io>>

----------------------------------------------------------------------------
(* PDFToImageConverter.convert_batch *)

\* os.path.join(output_dir, f"{base_name}_image_{self.dpi}dpi.pdf"), or None
BatchOutputPath(dir, f, self) ==
    IF dir # ""
    THEN [dir |-> dir, stem |-> f.path.stem, dpi |-> self.dpi, n |-> 0]
    ELSE NoPath

\* mutant of AfterFailure: the exception leaves convert_batch
AbortBatch == "batch_aborted"

\* where the loop goes when convert_single_pdf raised: except Exception counts
\* the failure and the loop goes on
AfterFailure == "batch_iter"

\* the call convert_batch(l, d) and its first lines
BeginBatch(l, d) ==
    /\ mode' = "batch"
    /\ input_paths' = l
    /\ output_dir' = d
    /\ dirs' = IF d # "" /\ d \notin dirs THEN dirs \cup {d} ELSE dirs
    /\ io' = (io \/ d # "")
    /\ i' = 1
    /\ output_paths' = <<>>
    /\ successful' = 0
    /\ failed' = 0
    /\ pc' = "batch_iter"

\* a caller invokes convert_batch(input_paths, output_dir) on its own
BatchBegin ==
    /\ pc = "ready"
    /\ \E l \in BatchLists, d \in {"", "out"} : BeginBatch(l, d)
    /\ UNCHANGED <<callerVars, converter, init_args, attempts, outcomes, input_path, output_path,
                   temp_dir, rasterVars, canvasVars, err, fs, tempdirs, temp_seq, wrote, fs_before>>

\* the head of the for loop: the next input is handed to convert_single_pdf, or
\* the loop ends and the tally is printed
BatchIter ==
    /\ pc = "batch_iter"
    /\ IF i <= Len(input_paths)
       THEN /\ input_path' = input_paths[i]
            /\ output_path' = BatchOutputPath(output_dir, input_paths[i], converter)
            /\ attempts' = Append(attempts, i)
            /\ pc' = "validate"
            /\ temp_dir' = 0
            /\ pdf_document' = "none"
            /\ page_count' = 0
            /\ page_num' = 0
            /\ pixmap' = NoRaster
            /\ image_paths' = <<>>
            /\ close_count' = 0
            /\ rendered' = <<>>
            /\ canvas' = <<>>
            /\ canvas_i' = 0
            /\ assembling' = FALSE
            /\ wrote' = FALSE
            /\ fs_before' = fs
            /\ err' = NoError
       ELSE /\ pc' = "batch_done"
            /\ UNCHANGED <<input_path, output_path, attempts, temp_dir, rasterVars,
                           canvasVars, wrote, fs_before, err>>
    /\ UNCHANGED <<callerVars, converter, init_args, mode, input_paths, output_dir, i,
                   output_paths, successful, failed, outcomes, fs, dirs, tempdirs,
                   temp_seq, io>>

\* convert_single_pdf returned: output_paths.append(result_path); successful += 1
BatchSuccess ==
    /\ pc = "returned"
    /\ mode = "batch"
    /\ output_paths' = Append(output_paths, output_path)
    /\ successful' = successful + 1
    /\ i' = i + 1
    /\ pc' = "batch_iter"
    /\ UNCHANGED <<callerVars, converter, init_args, mode, input_paths, output_dir, failed,
                   attempts, outcomes, input_path, output_path, temp_dir, rasterVars,
                   canvasVars, err, fs, dirs, tempdirs, temp_seq, wrote, fs_before, io>>

\* mutant of BatchFailure: the failure is printed and not counted
BatchFailureUncounted ==
    /\ pc = "raised"
    /\ mode = "batch"
    /\ i' = i + 1
    /\ pc' = AfterFailure
    /\ UNCHANGED <<callerVars, converter, init_args, mode, input_paths, output_dir, output_paths,
                   successful, failed, attempts, outcomes, input_path, output_path,
                   temp_dir, rasterVars, canvasVars, err, fs, dirs, tempdirs,
                   temp_seq, wrote, fs_before, io>>

\* convert_single_pdf raised: except Exception: failed += 1
BatchFailure ==
    /\ pc = "raised"
    /\ mode = "batch"
    /\ failed' = failed + 1
    /\ i' = i + 1
    /\ pc' = AfterFailure
    /\ UNCHANGED <<callerVars, converter, init_args, mode, input_paths, output_dir, output_paths,
                   successful, attempts, outcomes, input_path, output_path, temp_dir,
                   rasterVars, canvasVars, err, fs, dirs, tempdirs, temp_seq,
                   wrote, fs_before, io>>

----------------------------------------------------------------------------
(* KeyboardInterrupt *)

\* positions inside convert_single_pdf
InCall == {"validate", "open", "render", "save_pixmap", "load_pixmap", "encode",
           "close", "canvas", "add_page", "save", "report", "unwind"}

KeyboardInterrupt == [type |-> "KeyboardInterrupt", kind |-> "interrupt", page |-> 0]

\* A KeyboardInterrupt is raised in the statement being executed, in a conversion or
\* between two conversions of a batch.  It is a BaseException and not an Exception:
\* no except Exception clause (lines 81, 138, 178, 226, 269) catches it, so output_path
\* is left as it is (partly written if c.save() was writing it); leaving the with
\* block removes the scratch directory; the exception leaves convert_single_pdf and
\* convert_batch.
Interrupt ==
    /\ pc \in InCall \cup {"batch_iter"}
    /\ err' = KeyboardInterrupt
    /\ tempdirs' = IF temp_dir \in DOMAIN tempdirs
                   THEN LeaveWith(tempdirs, temp_dir)
                   ELSE tempdirs
    /\ IF pc = "save"
       THEN \E partial \in BOOLEAN :
               /\ fs' = IF partial THEN Put(fs, output_path, PartialContent) ELSE fs
               /\ wrote' = partial
       ELSE UNCHANGED <<fs, wrote>>
    /\ outcomes' = IF pc \in InCall THEN Append(outcomes, "interrupt") ELSE outcomes
    /\ pc' = "interrupted"
    /\ UNCHANGED <<callerVars, converter, init_args, mode, batchVars, input_path,
                   output_path, temp_dir, rasterVars, canvasVars, dirs, temp_seq,
                   fs_before, io>>

----------------------------------------------------------------------------
(* main: the command-line interface *)

\* the files named on the command line
CliFiles == BatchFiles \cup {Missing}
CliLists == UNION {[1..n -> CliFiles] : n \in 1..MaxBatch}
\* --dpi, --format, --quality: the defaults, other values in range, values out of range
CliOptions == {<<150, "JPEG", 85>>, <<300, "PNG", 85>>, <<96, "JPEG", 85>>,
               <<150, "jpeg", 85>>, <<150, "JPEG", 101>>, <<150, "JPEG", 0>>}
Argvs == {[input |-> l, output |-> o, output_dir |-> d, batch |-> b,
           dpi |-> c[1], format |-> c[2], quality |-> c[3]] :
             l \in CliLists, o \in {NoPath, ExplicitOut}, d \in {"", "out"},
             b \in BOOLEAN, c \in CliOptions}

\* parser.parse_args() with the choices of --dpi and --format, and the three checks
\* that follow it; parser.error exits with status 2
MainParse ==
    /\ pc = "main"
    /\ IF \/ args.dpi \notin {72, 150, 300}
          \/ args.format \notin {"JPEG", "PNG"}
          \/ ~(1 <= args.quality /\ args.quality <= 100)
          \/ (Len(args.input) > 1 /\ ~args.batch)
          \/ (args.batch /\ args.output # NoPath)
       THEN /\ exit_status' = 2
            /\ pc' = "exit"
       ELSE /\ exit_status' = exit_status
            /\ pc' = "main_inputs"
    /\ UNCHANGED <<args, request, response, uploads, converter, init_args, mode,
                   batchVars, outcomes, input_path, output_path, temp_dir, rasterVars,
                   canvasVars, err, fs, dirs, tempdirs, temp_seq, wrote, fs_before, io>>

\* the loop over args.input: a file that does not exist or that validate_pdf turns
\* down ends the process with parser.error, whatever the mode
MainCheckInputs ==
    /\ pc = "main_inputs"
    /\ io' = TRUE
    /\ IF \E k \in 1..Len(args.input) :
             ~args.input[k].exists \/ ~validate_pdf(args.input[k])
       THEN /\ exit_status' = 2
            /\ pc' = "exit"
       ELSE /\ exit_status' = exit_status
            /\ pc' = "main_construct"
    /\ UNCHANGED <<args, request, response, uploads, converter, init_args, mode,
                   batchVars, outcomes, input_path, output_path, temp_dir, rasterVars,
                   canvasVars, err, fs, dirs, tempdirs, temp_seq, wrote, fs_before>>

\* converter = PDFToImageConverter(dpi=args.dpi, image_format=args.format, ...)
MainConstruct ==
    /\ pc = "main_construct"
    /\ Construct(args.dpi, args.format, args.quality)
    /\ UNCHANGED <<callerVars, converter, mode, batchVars, outcomes, input_path,
                   output_path, temp_dir, rasterVars, canvasVars, err, fs, dirs,
                   tempdirs, temp_seq, wrote, fs_before, io>>

\* converter.convert_batch(args.input, args.output_dir), or
\* converter.convert_single_pdf(args.input[0], args.output)
MainRun ==
    /\ pc = "ready"
    /\ IF args.batch \/ Len(args.input) > 1
       THEN /\ BeginBatch(args.input, args.output_dir)
            /\ UNCHANGED <<input_path, output_path, fs_before>>
       ELSE /\ BeginSingle("single", args.input[1], args.output)
            /\ UNCHANGED <<input_paths, output_dir, i, output_paths, successful,
                           failed, dirs, io>>
    /\ UNCHANGED <<callerVars, converter, init_args, attempts, outcomes, temp_dir,
                   rasterVars, canvasVars, err, fs, tempdirs, temp_seq, wrote>>

\* the call returned: main returns and the process exits with status 0
MainReturn ==
    /\ \/ pc = "batch_done"
       \/ pc = "returned" /\ mode = "single"
    /\ exit_status' = 0
    /\ pc' = "exit"
    /\ UNCHANGED <<args, request, response, uploads, converter, init_args, mode,
                   batchVars, outcomes, input_path, output_path, temp_dir, rasterVars,
                   canvasVars, err, fs, dirs, tempdirs, temp_seq, wrote, fs_before, io>>

\* except Exception as e: print(f"ERROR: {e}"); sys.exit(1)
MainExcept ==
    /\ \/ pc = "raised" /\ mode = "single"
       \/ pc = "config_error"
    /\ exit_status' = 1
    /\ pc' = "exit"
    /\ UNCHANGED <<args, request, response, uploads, converter, init_args, mode,
                   batchVars, outcomes, input_path, output_path, temp_dir, rasterVars,
                   canvasVars, err, fs, dirs, tempdirs, temp_seq, wrote, fs_before, io>>

\* except KeyboardInterrupt: print("\nOperation cancelled by user"); sys.exit(1)
MainInterrupted ==
    /\ pc = "interrupted"
    /\ exit_status' = 1
    /\ pc' = "exit"
    /\ UNCHANGED <<args, request, response, uploads, converter, init_args, mode,
                   batchVars, outcomes, input_path, output_path, temp_dir, rasterVars,
                   canvasVars, err, fs, dirs, tempdirs, temp_seq, wrote, fs_before, io>>

----------------------------------------------------------------------------
(* app.py: the /upload endpoint *)

\* a form field that the request does not carry
Absent == "<absent>"

\* the uploaded files: the client's file name (path.stem, path.ext) and the content
UploadGood == File("", "", "doc", ".pdf", "%PDF-", 2000, TRUE, FALSE, 1)
UploadEncrypted == File("", "", "enc", ".pdf", "%PDF-", 2000, TRUE, TRUE, 1)
UploadText == File("", "", "notes", ".pdf", "hello", 200, FALSE, FALSE, 0)
UploadEmpty == File("", "", "empty", ".pdf", "", 0, FALSE, FALSE, 0)
UploadTxt == File("", "", "notes", ".txt", "hello", 200, FALSE, FALSE, 0)
UploadNoName == File("", "", "", "", "%PDF-", 2000, TRUE, FALSE, 1)
\* a name without any ASCII letter before the extension
UploadNonAscii == File("", "", "<non-ascii>", ".pdf", "%PDF-", 2000, TRUE, FALSE, 1)

Requests ==
    {[has_file |-> h, file |-> f, dpi |-> d, format |-> m, quality |-> q] :
        h \in BOOLEAN,
        f \in {UploadGood, UploadEncrypted, UploadText, UploadEmpty, UploadTxt,
               UploadNoName, UploadNonAscii},
        d \in {Absent, "300", "96", "abc"},
        m \in {Absent, "png", "GIF"},
        q \in {Absent, "100", "0", "high"}}

\* '.' in filename and filename.rsplit('.', 1)[1].lower() in ALLOWED_EXTENSIONS
allowed_file(path) == path.ext # "" /\ lower(path.ext) = ".pdf"

\* request.form.get(key, default)
FormGet(value, default) == IF value = Absent THEN default ELSE value

\* int(s) on the strings the requests carry: the number, or ValueError
ParseInt(s) ==
    CASE s = "72"  -> [ok |-> TRUE, value |-> 72]
      [] s = "150" -> [ok |-> TRUE, value |-> 150]
      [] s = "300" -> [ok |-> TRUE, value |-> 300]
      [] s = "96"  -> [ok |-> TRUE, value |-> 96]
      [] s = "85"  -> [ok |-> TRUE, value |-> 85]
      [] s = "100" -> [ok |-> TRUE, value |-> 100]
      [] s = "0"   -> [ok |-> TRUE, value |-> 0]
      [] OTHER     -> [ok |-> FALSE, value |-> 0]

\* werkzeug's secure_filename: an ASCII name is kept; of a name without ASCII letters
\* before the extension only the extension is left, without its dot
secure_filename(path) ==
    IF path.stem = "<non-ascii>"
    THEN [path EXCEPT !.stem = CASE path.ext = ".pdf" -> "pdf"
                                 [] path.ext = ".PDF" -> "PDF"
                                 [] OTHER -> "file",
                      !.ext = ""]
    ELSE path

\* os.path.join(UPLOAD_FOLDER, f"{file_id}_{secure_name}"): the stem stands for the
\* stem prefixed with the request's uuid
SavedPath(path) ==
    [scheme |-> "", dir |-> "uploads", stem |-> secure_filename(path).stem,
     ext |-> secure_filename(path).ext]

\* os.path.join(OUTPUT_FOLDER, f"{file_id}_{base_name}_image_{dpi}dpi.pdf")
UploadOutputPath(path, dpi) ==
    [dir |-> "outputs", stem |-> secure_filename(path).stem, dpi |-> dpi, n |-> 0]

\* the settings of the request: the form fields with their defaults, parsed
FormDpi == ParseInt(FormGet(request.dpi, "150"))
FormFormat == upper(FormGet(request.format, "JPEG"))
FormQuality == ParseInt(FormGet(request.quality, "85"))

\* the checks of the request and of its settings, up to the first return; int() of
\* a field that is no number raises ValueError
UploadCheck ==
    /\ pc = "upload"
    /\ IF \/ ~request.has_file
          \/ (request.file.path.stem = "" /\ request.file.path.ext = "")
          \/ ~allowed_file(request.file.path)
       THEN response' = 400 /\ pc' = "answered" /\ err' = err
       ELSE IF ~FormDpi.ok \/ ~FormQuality.ok
       THEN /\ err' = [type |-> "ValueError", kind |-> "parse", page |-> 0]
            /\ pc' = "upload_except"
            /\ response' = response
       ELSE IF \/ FormDpi.value \notin {72, 150, 300}
               \/ FormFormat \notin {"JPEG", "PNG"}
               \/ ~(1 <= FormQuality.value /\ FormQuality.value <= 100)
       THEN response' = 400 /\ pc' = "answered" /\ err' = err
       ELSE response' = response /\ pc' = "upload_save" /\ err' = err
    /\ UNCHANGED <<args, exit_status, request, uploads, converter, init_args, mode,
                   batchVars, outcomes, input_path, output_path, temp_dir, rasterVars,
                   canvasVars, fs, dirs, tempdirs, temp_seq, wrote, fs_before, io>>

\* input_path = os.path.join(...); file.save(input_path): a failing save may leave
\* a part of the file in the upload folder
UploadSave ==
    /\ pc = "upload_save"
    /\ input_path' = [request.file EXCEPT !.path = SavedPath(request.file.path)]
    /\ io' = TRUE
    /\ \E ok \in BOOLEAN :
          IF ok
          THEN /\ uploads' = uploads \cup {SavedPath(request.file.path)}
               /\ pc' = "upload_validate"
               /\ err' = err
          ELSE /\ \E partial \in BOOLEAN :
                     uploads' = IF partial
                                THEN uploads \cup {SavedPath(request.file.path)}
                                ELSE uploads
               /\ err' = [type |-> "OSError", kind |-> "save", page |-> 0]
               /\ pc' = "upload_except"
    /\ UNCHANGED <<args, exit_status, request, response, converter, init_args, mode,
                   batchVars, outcomes, output_path, temp_dir, rasterVars, canvasVars,
                   fs, dirs, tempdirs, temp_seq, wrote, fs_before>>

\* validate_pdf(input_path): the file is removed and the answer is 400, or the
\* output path is made
UploadValidate ==
    /\ pc = "upload_validate"
    /\ IF ~validate_pdf(input_path)
       THEN /\ uploads' = uploads \ {input_path.path}
            /\ response' = 400
            /\ pc' = "answered"
            /\ output_path' = output_path
       ELSE /\ output_path' = UploadOutputPath(request.file.path, FormDpi.value)
            /\ pc' = "upload_construct"
            /\ UNCHANGED <<uploads, response>>
    /\ UNCHANGED <<args, exit_status, request, converter, init_args, mode, batchVars,
                   outcomes, input_path, temp_dir, rasterVars, canvasVars, err, fs,
                   dirs, tempdirs, temp_seq, wrote, fs_before, io>>

\* converter = PDFToImageConverter(dpi=dpi, image_format=image_format, ...)
UploadConstruct ==
    /\ pc = "upload_construct"
    /\ Construct(FormDpi.value, FormFormat, FormQuality.value)
    /\ UNCHANGED <<callerVars, converter, mode, batchVars, outcomes, input_path,
                   output_path, temp_dir, rasterVars, canvasVars, err, fs, dirs,
                   tempdirs, temp_seq, wrote, fs_before, io>>

\* converter.convert_single_pdf(input_path, output_path)
UploadConvert ==
    /\ pc = "ready"
    /\ BeginSingle("web", input_path, output_path)
    /\ UNCHANGED <<callerVars, converter, init_args, batchVars, outcomes, temp_dir,
                   rasterVars, canvasVars, err, fs, dirs, tempdirs, temp_seq, wrote, io>>

\* the conversion returned: the sizes of both files, os.remove(input_path), and the
\* answer of success
UploadFinish ==
    /\ pc = "returned"
    /\ mode = "web"
    /\ \E ok \in BOOLEAN :
          IF ok
          THEN /\ uploads' = uploads \ {input_path.path}
               /\ response' = 200
               /\ pc' = "answered"
               /\ err' = err
          ELSE /\ err' = [type |-> "OSError", kind |-> "size", page |-> 0]
               /\ pc' = "upload_except"
               /\ UNCHANGED <<uploads, response>>
    /\ UNCHANGED <<args, exit_status, request, converter, init_args, mode, batchVars,
                   outcomes, input_path, output_path, temp_dir, rasterVars, canvasVars,
                   fs, dirs, tempdirs, temp_seq, wrote, fs_before, io>>

\* mutant of UploadExcept: the handler answers 500 and removes nothing
UploadExceptKeepsFiles ==
    /\ \/ pc = "upload_except"
       \/ pc = "raised" /\ mode = "web"
       \/ pc = "config_error"
    /\ response' = 500
    /\ pc' = "answered"
    /\ UNCHANGED <<args, exit_status, request, uploads, converter, init_args, mode,
                   batchVars, outcomes, input_path, output_path, temp_dir, rasterVars,
                   canvasVars, err, fs, dirs, tempdirs, temp_seq, wrote, fs_before, io>>

\* except Exception as e: both files are removed if their names are bound and they
\* exist; the answer is 500
UploadExcept ==
    /\ \/ pc = "upload_except"
       \/ pc = "raised" /\ mode = "web"
       \/ pc = "config_error"
    /\ uploads' = IF input_path # NoFile THEN uploads \ {input_path.path} ELSE uploads
    /\ fs' = IF output_path # NoPath THEN RemoveOutput(fs, output_path) ELSE fs
    /\ response' = 500
    /\ pc' = "answered"
    /\ UNCHANGED <<args, exit_status, request, converter, init_args, mode, batchVars,
                   outcomes, input_path, output_path, temp_dir, rasterVars, canvasVars,
                   err, dirs, tempdirs, temp_seq, wrote, fs_before, io>>

----------------------------------------------------------------------------
Next ==
    \/ CallInit
    \/ InitBody
    \/ SingleBegin
    \/ Validate
    \/ OpenDocument
    \/ Render
    \/ SavePixmap
    \/ LoadPixmap
    \/ Encode
    \/ CloseDocument
    \/ CreateCanvas
    \/ AddPage
    \/ SaveCanvas
    \/ Report
    \/ Unwind
    \/ BatchBegin
    \/ BatchIter
    \/ BatchSuccess
    \/ BatchFailure

Spec == Init /\ [][Next]_vars

----------------------------------------------------------------------------
(* The command-line program: main and all it calls, with the user's interrupt *)

MainInit ==
    /\ pc = "main"
    /\ args \in Argvs
    /\ converter = NoConverter
    /\ init_args = NoArgs
    /\ mode = "none"
    /\ input_paths = <<>>
    /\ output_dir = ""
    /\ i = 0
    /\ output_paths = <<>>
    /\ successful = 0
    /\ failed = 0
    /\ input_path = NoFile
    /\ output_path = NoPath
    /\ temp_dir = 0
    /\ pdf_document = "none"
    /\ page_count = 0
    /\ page_num = 0
    /\ pixmap = NoRaster
    /\ image_paths = <<>>
    /\ canvas = <<>>
    /\ canvas_i = 0
    /\ err = NoError
    /\ fs \in InitialFS
    /\ dirs = {"in", "in2"}
    /\ tempdirs = [d \in {} |-> EmptyDir]
    /\ temp_seq = 0
    /\ close_count = 0
    /\ rendered = <<>>
    /\ assembling = FALSE
    /\ wrote = FALSE
    /\ fs_before = fs
    /\ io = FALSE
    /\ attempts = <<>>
    /\ outcomes = <<>>
    /\ exit_status = -1
    /\ request = NoRequest
    /\ response = 0
    /\ uploads = {}

MainNext ==
    \/ MainParse
    \/ MainCheckInputs
    \/ MainConstruct
    \/ InitBody
    \/ MainRun
    \/ Validate
    \/ OpenDocument
    \/ Render
    \/ SavePixmap
    \/ LoadPixmap
    \/ Encode
    \/ CloseDocument
    \/ CreateCanvas
    \/ AddPage
    \/ SaveCanvas
    \/ Report
    \/ Unwind
    \/ BatchIter
    \/ BatchSuccess
    \/ BatchFailure
    \/ Interrupt
    \/ MainReturn
    \/ MainExcept
    \/ MainInterrupted

MainSpec == MainInit /\ [][MainNext]_vars

----------------------------------------------------------------------------
(* The web service: one request to /upload and all it calls *)

UploadInit ==
    /\ pc = "upload"
    /\ request \in Requests
    /\ response = 0
    /\ uploads = {}
    /\ args = NoArgv
    /\ exit_status = -1
    /\ converter = NoConverter
    /\ init_args = NoArgs
    /\ mode = "none"
    /\ input_paths = <<>>
    /\ output_dir = ""
    /\ i = 0
    /\ output_paths = <<>>
    /\ successful = 0
    /\ failed = 0
    /\ input_path = NoFile
    /\ output_path = NoPath
    /\ temp_dir = 0
    /\ pdf_document = "none"
    /\ page_count = 0
    /\ page_num = 0
    /\ pixmap = NoRaster
    /\ image_paths = <<>>
    /\ canvas = <<>>
    /\ canvas_i = 0
    /\ err = NoError
    /\ fs \in InitialFS
    /\ dirs = {"in", "in2", "uploads", "outputs"}
    /\ tempdirs = [d \in {} |-> EmptyDir]
    /\ temp_seq = 0
    /\ close_count = 0
    /\ rendered = <<>>
    /\ assembling = FALSE
    /\ wrote = FALSE
    /\ fs_before = fs
    /\ io = FALSE
    /\ attempts = <<>>
    /\ outcomes = <<>>

UploadNext ==
    \/ UploadCheck
    \/ UploadSave
    \/ UploadValidate
    \/ UploadConstruct
    \/ InitBody
    \/ UploadConvert
    \/ Validate
    \/ OpenDocument
    \/ Render
    \/ SavePixmap
    \/ LoadPixmap
    \/ Encode
    \/ CloseDocument
    \/ CreateCanvas
    \/ AddPage
    \/ SaveCanvas
    \/ Report
    \/ Unwind
    \/ UploadFinish
    \/ UploadExcept

UploadSpec == UploadInit /\ [][UploadNext]_vars

----------------------------------------------------------------------------
(* convert_single_pdf called without an output_path, in directories where many
   of the names get_output_filename tries are taken *)

\* the counters of the names already taken: 0..(n - 1) less a few small ones, for n
\* small and for n around the cap of the loop
TakenCounters ==
    {(0..(n - 1)) \ H :
        n \in (0..MaxExisting) \cup ((MaxCounter - 1)..(MaxCounter + MaxOver)),
        H \in SUBSET (0..(MaxExisting - 1))}

NamingFS(path, dpi) ==
    {[p \in {Candidate(path, dpi, k) : k \in K} \cup {ExplicitOut} |-> OldContent] :
        K \in TakenCounters}

NamingInit ==
    /\ pc = "validate"
    /\ converter \in {[dpi |-> d, image_format |-> "JPEG", jpeg_quality |-> 85] :
                         d \in {72, 150, 300}}
    /\ init_args = NoArgs
    /\ mode = "single"
    /\ input_paths = <<>>
    /\ output_dir = ""
    /\ i = 0
    /\ output_paths = <<>>
    /\ successful = 0
    /\ failed = 0
    /\ input_path \in {GoodDoc(1), UpperExt}
    /\ output_path = NoPath
    /\ temp_dir = 0
    /\ pdf_document = "none"
    /\ page_count = 0
    /\ page_num = 0
    /\ pixmap = NoRaster
    /\ image_paths = <<>>
    /\ canvas = <<>>
    /\ canvas_i = 0
    /\ err = NoError
    /\ fs \in NamingFS(input_path.path, converter.dpi)
    /\ dirs = {"in", "in2"}
    /\ tempdirs = [d \in {} |-> EmptyDir]
    /\ temp_seq = 0
    /\ close_count = 0
    /\ rendered = <<>>
    /\ assembling = FALSE
    /\ wrote = FALSE
    /\ fs_before = fs
    /\ io = FALSE
    /\ attempts = <<>>
    /\ outcomes = <<>>
    /\ args = NoArgv
    /\ exit_status = -1
    /\ request = NoRequest
    /\ response = 0
    /\ uploads = {}

NamingNext == Validate

NamingSpec == NamingInit /\ [][NamingNext]_vars

----------------------------------------------------------------------------
(* Claims *)

\* positions inside convert_single_pdf after the validation has passed
PastValidation == {"open", "render", "save_pixmap", "load_pixmap", "encode", "close",
                   "canvas", "add_page", "save", "report", "unwind", "returned"}
\* positions at which control has left convert_pdf_to_images
LeftRasterizer == {"canvas", "add_page", "save", "report", "unwind", "returned",
                   "raised"}

\* C1, as stated: whenever convert_single_pdf has raised (whatever the failure:
\* validation, open, encrypted, page, reassembly, size), no file exists at
\* output_path.
C1_NoFileAtOutputAfterFailure ==
    pc = "raised" => output_path \notin DOMAIN fs

\* C1, amended: whenever convert_single_pdf has raised after the validation passed
\* (open, encrypted, page, reassembly/write, size), no file exists at output_path;
\* when it raised the validation error it has written and deleted nothing, so the
\* files are those that existed when the call began.
C1_FailureLeavesNoOutput ==
    pc = "raised" =>
        IF err.kind = "validation"
        THEN fs = fs_before /\ ~wrote
        ELSE output_path \notin DOMAIN fs

C1_WrittenThenDeleted ==
    pc = "raised" /\ err.kind = "size" /\ wrote /\ output_path \notin DOMAIN fs

\* C2: once control has left convert_pdf_to_images (by return or by raise), the
\* document handle it opened is closed, and was closed exactly once.
C2_HandleClosedOnEveryExit ==
    (pc \in LeftRasterizer /\ pdf_document # "none") =>
        pdf_document = "closed" /\ close_count = 1

\* C3: in convert_batch the calls of convert_single_pdf are for inputs 1, 2, ... in
\* that order, each once and one at a time; after a call that raised, the loop goes
\* on with the next input; and the batch stops nowhere but at its tally, where all
\* the inputs have been attempted.
C3_InOrderOnce ==
    mode = "batch" =>
        /\ attempts = [k \in 1..Len(attempts) |-> k]
        /\ Len(attempts) <= Len(input_paths)
        /\ Len(outcomes) <= Len(attempts)
        /\ Len(attempts) <= Len(outcomes) + 1
        /\ (pc = "batch_iter" => Len(outcomes) = Len(attempts) /\ i = Len(attempts) + 1)
        /\ (pc \in (PastValidation \cup {"validate"}) \ {"returned"} =>
                /\ Len(outcomes) + 1 = Len(attempts)
                /\ input_path = input_paths[Len(attempts)])
        /\ (pc \in {"returned", "raised"} =>
                /\ Len(outcomes) = Len(attempts)
                /\ input_path = input_paths[Len(attempts)])
        /\ (pc = "batch_done" => Len(attempts) = Len(input_paths))
        /\ (pc = "batch_done" \/ ENABLED Next)

C3_EveryInputAttempted ==
    /\ []C3_InOrderOnce
    /\ [][(mode = "batch" /\ pc = "raised") =>
             (pc' = "batch_iter" /\ i' = i + 1 /\ i' <= Len(input_paths) + 1)]_vars

C3_FailureThenNext ==
    /\ pc = "batch_done"
    /\ Len(input_paths) >= 2
    /\ outcomes[1] = "error"
    /\ attempts = [k \in 1..Len(input_paths) |-> k]

\* the number of calls of convert_single_pdf that raised
Errors == Cardinality({k \in DOMAIN outcomes : outcomes[k] = "error"})

C5_PagesAndSizesKept ==
    pc = "returned" =>
        /\ output_path \in DOMAIN fs
        /\ LET out == fs[output_path]
               src == input_path.pages
           IN /\ out.kind = "converted"
              /\ Len(out.pages) = Len(src)
              /\ \A k \in 1..Len(src) :
                    /\ out.pages[k].image.src = input_path.path
                    /\ out.pages[k].image.page = k - 1
                    /\ out.pages[k].image.width * PointsPerInch <= src[k][1] * converter.dpi
                    /\ out.pages[k].width = src[k][1]
                    /\ out.pages[k].height = src[k][2]

C5_TwoPagesAt300 ==
    pc = "returned" /\ converter.dpi = 300 /\ Len(input_path.pages) >= 2

\* C6: when a page fails, the error names the 1-based number of the page being
\* processed, the pages before it were all rendered (none skipped), no later page is
\* rendered, and the reassembly has not started.
C6_PageFailureAborts ==
    (pc \in {"unwind", "raised"} /\ err.kind = "page") =>
        /\ err.type = "RuntimeError"
        /\ err.page = Len(image_paths) + 1
        /\ err.page = page_num + 1
        /\ \A k \in 1..Len(rendered) : rendered[k] = k - 1
        /\ Len(rendered) \in {page_num, page_num + 1}
        /\ ~assembling
        /\ canvas = <<>>
        /\ ~wrote

C6_FirstOfTwoFails ==
    pc = "raised" /\ err.kind = "page" /\ err.page = 1 /\ page_count >= 2
    /\ rendered = <<0>>

\* C7: for an encrypted input no page is ever rendered and nothing is written, the
\* call never returns normally, and when the input passed the validation the call
\* raises the open error and leaves no file at output_path.
C7_EncryptedRejected ==
    (input_path.is_encrypted /\ pc \in PastValidation \cup {"raised"}) =>
        /\ rendered = <<>>
        /\ ~wrote
        /\ pc \in {"open", "unwind", "raised"}
        /\ (pc = "raised" /\ validate_pdf(input_path) =>
                /\ err.type = "RuntimeError"
                /\ err.kind \in {"open", "encrypted"}
                /\ output_path \notin DOMAIN fs)

C7_EncryptedRaised ==
    pc = "raised" /\ input_path.is_encrypted /\ err.kind = "encrypted"
    /\ pdf_document = "open"

\* C8: a file of zero bytes, or one whose first 5 bytes are not %PDF-, never gets
\* past the validation of convert_single_pdf: its document is never opened.
C8_NonPdfRejected ==
    (input_path.exists /\ input_path.is_file
        /\ (input_path.size = 0 \/ input_path.header # "%PDF-")) =>
        pc \notin PastValidation

\* the settings as the caller wrote them are outside the enumerated ranges
ArgsOutOfRange ==
    \/ init_args.dpi \notin {72, 150, 300}
    \/ init_args.image_format \notin {"JPEG", "PNG"}
    \/ init_args.jpeg_quality < 1
    \/ init_args.jpeg_quality > 100

\* the same, the format compared without regard to case
ArgsOutOfRangeAnyCase ==
    \/ init_args.dpi \notin {72, 150, 300}
    \/ upper(init_args.image_format) \notin {"JPEG", "PNG"}
    \/ init_args.jpeg_quality < 1
    \/ init_args.jpeg_quality > 100

\* C10, as stated: __init__ called with a dpi outside {72,150,300}, a format outside
\* {JPEG,PNG} or a quality outside [1,100] raises.
C10_OutOfRangeRaises ==
    [][(pc = "init" /\ ArgsOutOfRange) => pc' = "config_error"]_vars

\* C10, amended: __init__ touches no file; it raises ValueError when the dpi is
\* outside {72,150,300}, the upper-cased format is outside {JPEG,PNG} (so "jpeg" is
\* accepted) or the quality is outside [1,100], and then no converter exists and
\* nothing follows; every converter that starts a conversion has settings in range.
C10_ConfigRejectedBeforeIO ==
    /\ [][pc = "init" =>
            /\ fs' = fs /\ dirs' = dirs /\ tempdirs' = tempdirs /\ io' = io
            /\ (ArgsOutOfRangeAnyCase =>
                    pc' = "config_error" /\ converter' = NoConverter
                    /\ err'.type = "ValueError")
            /\ (~ArgsOutOfRangeAnyCase => pc' = "ready")]_vars
    /\ [][pc = "config_error" => UNCHANGED vars]_vars
    /\ [](pc = "config_error" => ~io /\ converter = NoConverter)
    /\ [](pc \notin {"new", "init", "config_error"} =>
            /\ converter.dpi \in {72, 150, 300}
            /\ converter.image_format \in {"JPEG", "PNG"}
            /\ converter.jpeg_quality \in 1..100)

C10_BadDpiRejected ==
    pc = "config_error" /\ err.kind = "dpi" /\ ~io


\* the counters k of 0..MaxCounter whose name was free when the call began
FreeCounters ==
    {k \in 0..MaxCounter :
        Candidate(input_path.path, converter.dpi, k) \notin DOMAIN fs_before}

\* the least element of a non-empty set of numbers
Least(S) == CHOOSE k \in S : \A j \in S : k <= j

\* C9, as stated: the path derived by convert_single_pdf called without an
\* output_path never names a file that existed, whatever files are present.
C9_DerivedPathIsFresh ==
    (pc = "open" /\ mode = "single") => output_path \notin DOMAIN fs_before

\* C9, amended: the derived path is {stem}_image_{dpi}dpi.pdf in the input's
\* directory if that name is free, otherwise the first free one of the names
\* suffixed _1 .. _1000, and then it names no existing file; when the unsuffixed name
\* and all of _1 .. _1000 are taken it is the _1000 name, which exists.
C9_FirstFreeNameUpToCap ==
    (pc = "open" /\ mode = "single") =>
        /\ output_path.dir = input_path.path.dir
        /\ output_path.stem = input_path.path.stem
        /\ output_path.dpi = converter.dpi
        /\ IF FreeCounters # {}
           THEN /\ output_path.n = Least(FreeCounters)
                /\ output_path \notin DOMAIN fs_before
           ELSE /\ output_path.n = MaxCounter
                /\ output_path \in DOMAIN fs_before

C9_SecondSuffix ==
    /\ pc = "open"
    /\ output_path.n = 2
    /\ Candidate(input_path.path, converter.dpi, 0) \in DOMAIN fs_before
    /\ Candidate(input_path.path, converter.dpi, 1) \in DOMAIN fs_before

\* positions inside the with block of convert_single_pdf
InWith == InCall \ {"validate"}

\* C11: outside the with block of convert_single_pdf (before it, and after it was
\* left by return, by an exception or by the user's interrupt) no scratch directory
\* exists; inside it the only one that exists is the conversion's own, which was
\* created empty for this conversion under a name no earlier conversion had.
C11_ScratchRemovedOnEveryExit ==
    /\ [](pc \notin InWith => DOMAIN tempdirs = {})
    /\ [](pc \in InWith => DOMAIN tempdirs = {temp_dir} /\ temp_dir = temp_seq)
    /\ [][(pc = "validate" /\ pc' = "open") =>
             /\ temp_dir' > temp_seq
             /\ temp_dir' \notin DOMAIN tempdirs
             /\ tempdirs'[temp_dir'] = EmptyDir]_vars
    /\ [][(pc \in InWith /\ pc' \notin InWith) => DOMAIN tempdirs' = {}]_vars

C11_SecondOfBatchInterrupted ==
    /\ pc = "interrupted"
    /\ mode = "batch"
    /\ temp_seq = 2
    /\ rendered # <<>>
    /\ outcomes = <<"ok", "interrupt">>
    /\ DOMAIN tempdirs = {}

\* C12: when the process exits after a KeyboardInterrupt that arrived while a file
\* was being converted, the scratch directory of that conversion is removed and the
\* output file the conversion wrote (in part or in full) is deleted.
C12_InterruptCleansUp ==
    (pc = "exit" /\ err = KeyboardInterrupt /\ outcomes # <<>>
        /\ outcomes[Len(outcomes)] = "interrupt") =>
        /\ DOMAIN tempdirs = {}
        /\ (wrote => output_path \notin DOMAIN fs)

\* the stage of the single conversion the program is at; Idle: no conversion is
\* under way
Stage(p) ==
    CASE p = "validate" -> "Validating"
      [] p \in {"open", "render", "save_pixmap", "load_pixmap", "encode", "close"} ->
             "Rasterizing"
      [] p \in {"canvas", "add_page", "save", "report"} -> "Reassembling"
      [] p = "returned" -> "Done"
      [] p \in {"unwind", "raised"} -> "Failed"
      [] OTHER -> "Idle"

\* the changes of stage of one conversion
StageSteps ==
    {<<"Idle", "Validating">>, <<"Validating", "Rasterizing">>,
     <<"Rasterizing", "Reassembling">>, <<"Reassembling", "Done">>,
     <<"Validating", "Failed">>, <<"Rasterizing", "Failed">>,
     <<"Reassembling", "Failed">>}

\* C13, as stated (its last part): whenever a conversion has ended in Failed and
\* control is back with the caller, the scratch directory is removed and no file is
\* present at output_path.
C13_FailedMeansNoOutput ==
    (Stage(pc) = "Failed" /\ pc = "raised") =>
        /\ DOMAIN tempdirs = {}
        /\ output_path \notin DOMAIN fs

\* C13, amended: a conversion changes stage only along Idle -> Validating ->
\* Rasterizing -> Reassembling -> Done or from one of the three middle stages to
\* Failed; Done and Failed are left only by convert_batch going on to its next input;
\* Failed can be entered from each of the three middle stages; and when control is
\* back with the caller after Failed, no scratch directory exists and, for a failure
\* in Rasterizing or Reassembling, no file is at output_path, while for a failure in
\* Validating the files are those that existed before the call.
C13_StagesAndCleanup ==
    /\ [][\/ Stage(pc') = Stage(pc)
          \/ <<Stage(pc), Stage(pc')>> \in StageSteps
          \/ /\ Stage(pc) \in {"Done", "Failed"}
             /\ mode = "batch" /\ pc' = "batch_iter" /\ i' = i + 1]_vars
    /\ [](pc = "validate" /\ ~validate_pdf(input_path) =>
             ENABLED (Next /\ Stage(pc') = "Failed"))
    /\ [](pc \in {"open", "render", "save_pixmap", "load_pixmap", "encode"} =>
             ENABLED (Next /\ Stage(pc') = "Failed"))
    /\ [](pc \in {"add_page", "save", "report"} =>
             ENABLED (Next /\ Stage(pc') = "Failed"))
    /\ [](pc = "raised" =>
             /\ DOMAIN tempdirs = {}
             /\ IF err.kind = "validation"
                THEN fs = fs_before
                ELSE output_path \notin DOMAIN fs)

C13_FailedWhileReassembling ==
    /\ pc = "raised"
    /\ err = ReassemblyError
    /\ wrote
    /\ Len(canvas) = 2
    /\ output_path \notin DOMAIN fs

\* C14: while create_pdf_from_images makes the canvas and appends the pages, the
\* files are those that existed when the conversion began (nothing is at output_path
\* because of this run); a failure while a page is appended leaves them so; and the
\* one write, c.save(), puts at output_path all the pages of image_paths, in list
\* order.
C14_WrittenOnlyAfterAllPages ==
    /\ [](pc \in {"add_page", "save"} => fs = fs_before /\ ~wrote)
    /\ [][(pc \in {"canvas", "add_page"}) => UNCHANGED <<fs, wrote>>]_vars
    /\ [][(pc = "add_page" /\ pc' = "unwind") => (fs' = fs_before /\ wrote' = FALSE)]_vars
    /\ [][(pc = "save" /\ pc' = "report") =>
             /\ Len(canvas) = Len(image_paths)
             /\ \A k \in 1..Len(canvas) :
                   canvas[k] = CanvasPage(image_paths[k], tempdirs[temp_dir])
             /\ fs'[output_path].pages = canvas]_vars

C14_SecondPageNotAppended ==
    /\ pc = "unwind"
    /\ err = ReassemblyError
    /\ Len(image_paths) = 2
    /\ canvas_i = 2
    /\ Len(canvas) = 1
    /\ fs = fs_before

\* the command line is well formed: the options are in range, --output goes with one
\* input and no --batch, several inputs go with --batch
WellFormedArgv ==
    /\ args.dpi \in {72, 150, 300}
    /\ args.format \in {"JPEG", "PNG"}
    /\ args.quality \in 1..100
    /\ (Len(args.input) > 1 => args.batch)
    /\ (args.batch => args.output = NoPath)

\* C15: the process that was given a well-formed command line and was not interrupted
\* exits with status 0 in batch mode, whichever of its input files fail (files that
\* are no valid PDFs included), and in single-file mode exits with a nonzero status
\* only if the requested file failed to convert.
C15_NonzeroOnlyForSingleFailure ==
    (pc = "exit" /\ WellFormedArgv /\ err # KeyboardInterrupt) =>
        IF args.batch
        THEN exit_status = 0 /\ successful + failed = Len(args.input)
        ELSE exit_status # 0 =>
                \/ outcomes = <<"error">>
                \/ ~args.input[1].exists
                \/ ~validate_pdf(args.input[1])

\* the request has a validation or configuration error: no file, a file name that
\* is empty or has no .pdf extension, a file that fails the PDF sanity check, or a
\* setting that is no number or is outside its range
BadRequest ==
    \/ ~request.has_file
    \/ (request.file.path.stem = "" /\ request.file.path.ext = "")
    \/ ~allowed_file(request.file.path)
    \/ ~validate_pdf([request.file EXCEPT !.path = SavedPath(request.file.path)])
    \/ ~FormDpi.ok
    \/ ~FormQuality.ok
    \/ FormDpi.value \notin {72, 150, 300}
    \/ FormFormat \notin {"JPEG", "PNG"}
    \/ FormQuality.value \notin 1..100

\* C16: a request with a validation or configuration error is answered with a 4xx
\* status, and a 5xx status is the answer only to a request whose conversion failed
\* while the document was opened, rendered or reassembled.
C16_ErrorKindsMapToStatus ==
    pc = "answered" =>
        /\ (BadRequest => response \in 400..499)
        /\ (response \in 500..599 =>
               err.kind \in {"open", "encrypted", "page", "reassembly"})

\* C17: no exception leaves validate_pdf: for every file handed to
\* convert_single_pdf the call returns True or False, and it returns False (the
\* conversion raises its own ValueError) when the file does not exist, cannot be read
\* where its header is needed, or has vanished when its size is asked for.
C17_ValidateNeverRaises ==
    /\ err.kind # "validate_pdf"
    /\ (pc \in InCall \cup {"returned", "raised"}) =>
          /\ ValidateOutcome(input_path) \in {"True", "False"}
          /\ (pc \in PastValidation => ValidateOutcome(input_path) = "True")
          /\ (\/ ~input_path.exists
              \/ input_path.size_error
              \/ (input_path.read_error /\ input_path.path.scheme = "data")) =>
                 /\ ValidateOutcome(input_path) = "False"
                 /\ (pc = "raised" =>
                        err = [type |-> "ValueError", kind |-> "validation", page |-> 0])

C17_VanishedFileIsInvalid ==
    /\ pc = "raised"
    /\ input_path.exists
    /\ input_path.size_error
    /\ err.type = "ValueError"

\* the temp_page_N.ppm files present in the scratch directories
ScratchRasters ==
    {<<d, n>> \in UNION {{d} \X DOMAIN tempdirs[d] : d \in DOMAIN tempdirs} :
        n.ext = "ppm"}

\* C18: when convert_pdf_to_images has returned (the reassembly is about to begin) or
\* has raised (the except clause of its caller is about to run), no temp_page_N.ppm
\* file is left in the scratch directory.
C18_ScratchRastersRemoved ==
    pc \in {"canvas", "unwind"} => ScratchRasters = {}

\* C19: when convert_single_pdf has raised without having written its output, every
\* file that existed when the call began still exists, with the content it had.
C19_FailureKeepsExistingFiles ==
    (pc = "raised" /\ ~wrote) =>
        \A p \in DOMAIN fs_before : p \in DOMAIN fs /\ fs[p] = fs_before[p]

\* the index in input_paths of the input whose conversion was the k-th to succeed
KthSuccess(k) ==
    CHOOSE j \in 1..Len(outcomes) :
        /\ outcomes[j] = "ok"
        /\ Cardinality({m \in 1..j : outcomes[m] = "ok"}) = k

\* C20: when convert_batch called with an output_dir is at its tally, every path of
\* the list it returns names a file that exists and holds the conversion of the
\* input it was returned for, and no two of the paths are equal.
C20_BatchOutputsExistAndDiffer ==
    (pc = "batch_done" /\ output_dir # "") =>
        /\ \A k \in 1..Len(output_paths) :
              /\ output_paths[k] \in DOMAIN fs
              /\ fs[output_paths[k]].kind = "converted"
              /\ fs[output_paths[k]].src = input_paths[KthSuccess(k)].path
        /\ \A j, k \in 1..Len(output_paths) :
              j # k => output_paths[j] # output_paths[k]

\* the files present in the output folder
OutputFolder == {p \in DOMAIN fs : p.dir = "outputs"}

\* C21: when the request has been answered, the upload folder does not hold the
\* input file saved for it, whatever the answer (200, 400 or 500); when the answer is
\* not 200 the output folder holds no file of the request; and when it is 200 the
\* output file of the request is there.
C21_AnsweredRequestLeavesNoFiles ==
    pc = "answered" =>
        /\ SavedPath(request.file.path) \notin uploads
        /\ uploads = {}
        /\ (response # 200 =>
               /\ OutputFolder = {}
               /\ UploadOutputPath(request.file.path, FormDpi.value) \notin DOMAIN fs)
        /\ (response = 200 =>
               /\ OutputFolder = {output_path}
               /\ fs[output_path].kind = "converted"
               /\ fs[output_path].src = SavedPath(request.file.path))

C21_FailedAfterOutputWritten ==
    /\ pc = "answered"
    /\ response = 500
    /\ wrote
    /\ outcomes = <<"ok">>
    /\ uploads = {}
    /\ OutputFolder = {}

====
